---- MODULE Spec2Model ----
(***************************************************************************)
(* Booking-management backend: the request handlers of main.py, the        *)
(* payload models of pydantic_models.py and the data manager behind        *)
(* DataManagerInterface, as one state machine over the entity store.       *)
(*                                                                         *)
(* Every request is one atomic step: payload validation, the credential    *)
(* check, the data-manager call and the response.  The step records the    *)
(* store before the request (pre), the request (req) and the response      *)
(* (resp), so that properties of a single request are state predicates.    *)
(***************************************************************************)
EXTENDS Integers, Sequences, FiniteSets, TLC

VARIABLES db, pre, req, resp

vars == <<db, pre, req, resp>>

(***************************************************************************)
(* Bounds of the model.                                                    *)
(***************************************************************************)
MaxUsers == 2
MaxProfiles == 1
MaxContracts == 1
MaxEvents == 1
MaxAccommodations == 1
MaxTime == 2

(***************************************************************************)
(* Optional values: Python's None and a present value.                     *)
(***************************************************************************)
None == <<>>
Some(v) == <<v>>
Get(o) == o[1]

Times == 1..MaxTime

(***************************************************************************)
(* Telephone numbers are sequences of characters.                          *)
(***************************************************************************)
Digit == {"0", "1", "2", "3", "4", "5", "6", "7", "8", "9"}
Whitespace == {" ", "\t", "\n", "\r", "\f"}

\* re.match(r"^\+?\d[\d\s\-]+$", v)
PhoneMatch(v) ==
    LET s == IF Len(v) > 0 /\ v[1] = "+" THEN Tail(v) ELSE v
    IN  /\ Len(s) >= 2
        /\ s[1] \in Digit
        /\ \A i \in 2..Len(s) : s[i] \in Digit \cup Whitespace \cup {"-"}

\* field_validator("phone_number") / ("telephone_number"): a value that does
\* not match raises ValueError; None makes re.match raise TypeError.
validate_phone_number(v) ==
    IF v = None THEN "crash"
    ELSE IF PhoneMatch(Get(v)) THEN "ok" ELSE "value_error"

\* The alphabetic codes the iso4217 Currency enumeration knows (a sample).
IsoCodes == {"USD", "EUR", "XXX"}

\* A currency rule that lets every string pass.
validate_currency_code_any_string(v) ==
    IF v = None THEN "value_error" ELSE "ok"

\* field_validator("currency_code"): Currency(v) raises ValueError for every
\* value that is no member, None included, and the validator re-raises it.
validate_currency_code(v) ==
    IF v = None THEN "value_error"
    ELSE IF Get(v) \in IsoCodes THEN "ok" ELSE "value_error"

\* field_validator("duration"): None has no total_seconds (AttributeError).
validate_duration(v) ==
    IF v = None THEN "crash"
    ELSE IF Get(v) <= 0 THEN "value_error" ELSE "ok"

\* field_validator("start", "arrive", "stage_set", ...): a time of day is its
\* hour here.  The test is (time_val and hour < 0) or hour > 23 or ..., so
\* None gets past the first operand and has no hour (AttributeError).
validate_time_range(v) ==
    IF v = None THEN "crash"
    ELSE IF Get(v) < 0 \/ Get(v) > 23 THEN "value_error" ELSE "ok"

\* A date rule that asks for a day after today.
validate_future_date_after_today(v, today) ==
    IF v = None THEN "crash"
    ELSE IF Get(v) <= today THEN "value_error" ELSE "ok"

\* field_validator("date"): None < today raises TypeError.
validate_future_date(v, today) ==
    IF v = None THEN "crash"
    ELSE IF Get(v) < today THEN "value_error" ELSE "ok"

\* The strings that parse as an HttpUrl (a sample).
HttpUrls == {"http://w1", "http://w2"}

\* A field of type Optional[HttpUrl].
validate_http_url(v) ==
    IF v = None THEN "ok"
    ELSE IF Get(v) \in HttpUrls THEN "ok" ELSE "value_error"

RunValidator(name, v, now) ==
    CASE name = "validate_phone_number" -> validate_phone_number(v)
      [] name = "HttpUrl" -> validate_http_url(v)
      [] name = "validate_currency_code" -> validate_currency_code(v)
      [] name = "validate_duration" -> validate_duration(v)
      [] name = "validate_future_date" -> validate_future_date(v, now)
      [] name = "validate_time_range" -> validate_time_range(v)
      [] OTHER -> "ok"

(***************************************************************************)
(* Validation of a request body against a payload model.  Fields the       *)
(* model does not declare are ignored; a missing required field, a None    *)
(* for a field that is not Optional and a ValueError of a field validator  *)
(* are validation errors; any other exception of a validator escapes.      *)
(***************************************************************************)
PydanticValidate(M, p, now) ==
    LET present == DOMAIN p \cap M.fields
        missing == M.required \ DOMAIN p
        typeErr == {f \in present : p[f] = None /\ f \notin M.nullable}
        vres(f) == IF f \in DOMAIN M.validators /\ f \notin typeErr
                   THEN RunValidator(M.validators[f], p[f], now)
                   ELSE "ok"
        crashed == \E f \in present : vres(f) = "crash"
        errors == \/ missing # {}
                  \/ typeErr # {}
                  \/ \E f \in present : vres(f) = "value_error"
    IN  [outcome |-> IF crashed THEN "INTERNAL_ERROR"
                     ELSE IF errors THEN "VALIDATION_ERROR" ELSE "OK",
         data |-> [f \in M.fields |-> IF f \in present THEN p[f] ELSE M.defaults[f]],
         fields_set |-> present]

\* A body accepted as it is (no payload model in front of the handler).
NoValidate(M, p, now) ==
    [outcome |-> "OK",
     data |-> [f \in M.fields |-> IF f \in DOMAIN p THEN p[f] ELSE M.defaults[f]],
     fields_set |-> DOMAIN p \cap M.fields]

(***************************************************************************)
(* Payload models.                                                         *)
(***************************************************************************)
UserCreatePydantic ==
    [fields |-> {"phone_number", "is_active", "deactivation_date"},
     required |-> {"phone_number"},
     nullable |-> {"deactivation_date"},
     defaults |-> [phone_number |-> None, is_active |-> Some(TRUE),
                   deactivation_date |-> None],
     validators |-> [phone_number |-> "validate_phone_number"]]

UserUpdatePydantic ==
    [fields |-> {"phone_number", "is_active", "deactivation_date"},
     required |-> {},
     nullable |-> {"phone_number", "is_active", "deactivation_date"},
     defaults |-> [phone_number |-> None, is_active |-> None,
                   deactivation_date |-> None],
     validators |-> [phone_number |-> "validate_phone_number"]]

ProfilePydantic ==
    [fields |-> {"name", "website"},
     required |-> {"name"},
     nullable |-> {"website"},
     defaults |-> [name |-> None, website |-> None],
     validators |-> [website |-> "HttpUrl"]]

ContractPydantic ==
    [fields |-> {"name", "offeree_id", "currency_code", "disabled", "disabled_at"},
     required |-> {"name", "offeree_id", "currency_code"},
     nullable |-> {"disabled_at"},
     defaults |-> [name |-> None, offeree_id |-> None, currency_code |-> None,
                   disabled |-> Some(FALSE), disabled_at |-> None],
     validators |-> [currency_code |-> "validate_currency_code"]]

\* Every field of the update model is Optional without a default, hence
\* required; disabled and disabled_at are not fields of it.
ContractUpdatePydantic ==
    [fields |-> {"name", "offeree_id", "currency_code"},
     required |-> {"name", "offeree_id", "currency_code"},
     nullable |-> {"name", "offeree_id", "currency_code"},
     defaults |-> [name |-> None, offeree_id |-> None, currency_code |-> None],
     validators |-> [currency_code |-> "validate_currency_code"]]

EventPydantic ==
    [fields |-> {"contract_id", "profile_offeror_id", "profile_offeree_id",
                 "contact_phone", "date", "duration", "stage_set",
                 "accommodation_id"},
     required |-> {"contract_id", "profile_offeror_id", "profile_offeree_id",
                   "date", "duration"},
     nullable |-> {"contact_phone", "stage_set", "accommodation_id"},
     defaults |-> [contract_id |-> None, profile_offeror_id |-> None,
                   profile_offeree_id |-> None, contact_phone |-> None,
                   date |-> None, duration |-> None, stage_set |-> None,
                   accommodation_id |-> None],
     validators |-> [duration |-> "validate_duration",
                     date |-> "validate_future_date",
                     stage_set |-> "validate_time_range"]]

EventUpdatePydantic ==
    [fields |-> {"contract_id", "profile_offeror_id", "profile_offeree_id",
                 "contact_phone", "date", "duration", "stage_set",
                 "accommodation_id"},
     required |-> {"contract_id", "profile_offeror_id", "profile_offeree_id",
                   "date", "duration"},
     nullable |-> {"contract_id", "profile_offeror_id", "profile_offeree_id",
                   "contact_phone", "date", "duration", "stage_set",
                   "accommodation_id"},
     defaults |-> [contract_id |-> None, profile_offeror_id |-> None,
                   profile_offeree_id |-> None, contact_phone |-> None,
                   date |-> None, duration |-> None, stage_set |-> None,
                   accommodation_id |-> None],
     validators |-> [duration |-> "validate_duration",
                     date |-> "validate_future_date",
                     stage_set |-> "validate_time_range"]]

AccommodationPydantic ==
    [fields |-> {"name", "telephone_number"},
     required |-> {"name", "telephone_number"},
     nullable |-> {},
     defaults |-> [name |-> None, telephone_number |-> None],
     validators |-> [telephone_number |-> "validate_phone_number"]]

AccommodationUpdatePydantic ==
    [fields |-> {"name", "telephone_number"},
     required |-> {},
     nullable |-> {"name", "telephone_number"},
     defaults |-> [name |-> None, telephone_number |-> None],
     validators |-> [telephone_number |-> "validate_phone_number"]]

(***************************************************************************)
(* The entity store.                                                       *)
(***************************************************************************)
EmptyStore ==
    [users |-> <<>>, profiles |-> <<>>, contracts |-> <<>>, events |-> <<>>,
     accommodations |-> <<>>,
     next |-> [users |-> 1, profiles |-> 1, contracts |-> 1, events |-> 1,
               accommodations |-> 1]]

Result(status, data, store) == [status |-> status, data |-> data, db |-> store]

\* update: only the fields present in the payload are written.
Merge(rec, v) ==
    [f \in DOMAIN rec |-> IF f \in v.fields_set THEN v.data[f] ELSE rec[f]]

Insert(store, kind, rec) ==
    LET id == store.next[kind]
    IN  [store EXCEPT ![kind] = (id :> rec) @@ @, !.next[kind] = id + 1]

Put(store, kind, id, rec) == [store EXCEPT ![kind][id] = rec]

Remove(store, kind, id) ==
    [store EXCEPT ![kind] = [i \in DOMAIN @ \ {id} |-> @[i]]]

(***************************************************************************)
(* Data manager: users.                                                    *)
(***************************************************************************)
DM_create_user(store, v) ==
    Result("OK", Some(store.next.users), Insert(store, "users", v.data))

DM_get_user_by_id(store, user_id) ==
    IF user_id \notin DOMAIN store.users
    THEN Result("NOT_FOUND", None, store)
    ELSE Result("OK", Some([id |-> user_id] @@ store.users[user_id]), store)

DM_update_user(store, v, user_id) ==
    IF user_id \notin DOMAIN store.users
    THEN Result("NOT_FOUND", None, store)
    ELSE LET new == Merge(store.users[user_id], v)
         IN  Result("OK", Some([id |-> user_id] @@ new),
                    Put(store, "users", user_id, new))

DM_soft_delete_user(store, deactivation_date, user_id, now) ==
    IF user_id \notin DOMAIN store.users
    THEN Result("NOT_FOUND", None, store)
    ELSE LET effective == IF deactivation_date = None THEN Some(now)
                          ELSE deactivation_date
             new == [store.users[user_id] EXCEPT !.deactivation_date = effective]
         IN  Result("OK", Some([id |-> user_id, deactivation_date |-> effective]),
                    Put(store, "users", user_id, new))

(***************************************************************************)
(* Data manager: profiles.  A profile is owned by the user who created it. *)
(***************************************************************************)
ProfileReferenced(store, profile_id) ==
    \/ \E c \in DOMAIN store.contracts :
          store.contracts[c].offeree_id = Some(profile_id)
    \/ \E e \in DOMAIN store.events :
          \/ store.events[e].profile_offeror_id = Some(profile_id)
          \/ store.events[e].profile_offeree_id = Some(profile_id)

IsOwner(rec, actor) == rec.user_id = actor

DM_create_profile(store, v, current_user_id) ==
    Result("OK", Some(store.next.profiles),
           Insert(store, "profiles", v.data @@ [user_id |-> current_user_id]))

DM_get_profile_by_id(store, profile_id) ==
    IF profile_id \notin DOMAIN store.profiles
    THEN Result("NOT_FOUND", None, store)
    ELSE Result("OK", Some([id |-> profile_id] @@ store.profiles[profile_id]), store)

DM_update_profile(store, profile_id, v, current_user_id) ==
    IF profile_id \notin DOMAIN store.profiles
    THEN Result("NOT_FOUND", None, store)
    ELSE IF ~IsOwner(store.profiles[profile_id], current_user_id)
    THEN Result("FORBIDDEN", None, store)
    ELSE LET new == Merge(store.profiles[profile_id], v)
         IN  Result("OK", Some([id |-> profile_id] @@ new),
                    Put(store, "profiles", profile_id, new))

\* A hard delete that does not look at the references to the profile.
DM_delete_profile_unchecked(store, profile_id, current_user_id) ==
    IF profile_id \notin DOMAIN store.profiles
    THEN Result("NOT_FOUND", None, store)
    ELSE IF ~IsOwner(store.profiles[profile_id], current_user_id)
    THEN Result("FORBIDDEN", None, store)
    ELSE Result("OK", Some(TRUE), Remove(store, "profiles", profile_id))

DM_delete_profile(store, profile_id, current_user_id) ==
    IF profile_id \notin DOMAIN store.profiles
    THEN Result("NOT_FOUND", None, store)
    ELSE IF ~IsOwner(store.profiles[profile_id], current_user_id)
    THEN Result("FORBIDDEN", None, store)
    ELSE IF ProfileReferenced(store, profile_id)
    THEN Result("CONFLICT", None, store)
    ELSE Result("OK", Some(TRUE), Remove(store, "profiles", profile_id))

(***************************************************************************)
(* Data manager: contracts.  The party to a contract is its creator.       *)
(***************************************************************************)
\* A reference field of a validated payload that names no stored instance.
Dangling(store, kind, v, f) ==
    /\ f \in v.fields_set
    /\ v.data[f] # None
    /\ Get(v.data[f]) \notin DOMAIN store[kind]

\* A mandatory reference that the payload clears.
Cleared(v, f) == f \in v.fields_set /\ v.data[f] = None

\* A creation that stores the payload as it came, disabled flag included.
DM_create_contract_as_given(store, v, current_user_id) ==
    IF Dangling(store, "profiles", v, "offeree_id")
    THEN Result("NOT_FOUND", None, store)
    ELSE Result("OK", Some(store.next.contracts),
                Insert(store, "contracts", v.data @@ [user_id |-> current_user_id]))

DM_create_contract(store, v, current_user_id) ==
    IF Dangling(store, "profiles", v, "offeree_id")
    THEN Result("NOT_FOUND", None, store)
    ELSE Result("OK", Some(store.next.contracts),
                Insert(store, "contracts",
                       [v.data EXCEPT !.disabled = Some(FALSE), !.disabled_at = None]
                          @@ [user_id |-> current_user_id]))

DM_get_contract_by_id(store, contract_id, current_user_id) ==
    IF contract_id \notin DOMAIN store.contracts
    THEN Result("NOT_FOUND", None, store)
    ELSE IF ~IsOwner(store.contracts[contract_id], current_user_id)
    THEN Result("FORBIDDEN", None, store)
    ELSE Result("OK", Some([id |-> contract_id] @@ store.contracts[contract_id]), store)

DM_get_contract_events(store, contract_id, current_user_id) ==
    IF contract_id \notin DOMAIN store.contracts
    THEN Result("NOT_FOUND", None, store)
    ELSE IF ~IsOwner(store.contracts[contract_id], current_user_id)
    THEN Result("FORBIDDEN", None, store)
    ELSE Result("OK",
                Some({e \in DOMAIN store.events :
                         store.events[e].contract_id = Some(contract_id)}),
                store)

\* An update that does not look at the disabled flag.
DM_update_contract_ignoring_disabled(store, contract_id, v, current_user_id) ==
    IF contract_id \notin DOMAIN store.contracts
    THEN Result("NOT_FOUND", None, store)
    ELSE IF ~IsOwner(store.contracts[contract_id], current_user_id)
    THEN Result("FORBIDDEN", None, store)
    ELSE IF Dangling(store, "profiles", v, "offeree_id")
    THEN Result("NOT_FOUND", None, store)
    ELSE IF Cleared(v, "offeree_id")
    THEN Result("CONFLICT", None, store)
    ELSE LET new == Merge(store.contracts[contract_id], v)
         IN  Result("OK", Some([id |-> contract_id] @@ new),
                    Put(store, "contracts", contract_id, new))

DM_update_contract(store, contract_id, v, current_user_id) ==
    IF contract_id \notin DOMAIN store.contracts
    THEN Result("NOT_FOUND", None, store)
    ELSE IF ~IsOwner(store.contracts[contract_id], current_user_id)
    THEN Result("FORBIDDEN", None, store)
    ELSE IF store.contracts[contract_id].disabled = Some(TRUE)
    THEN Result("CONFLICT", None, store)
    ELSE IF Dangling(store, "profiles", v, "offeree_id")
    THEN Result("NOT_FOUND", None, store)
    ELSE IF Cleared(v, "offeree_id")
    THEN Result("CONFLICT", None, store)
    ELSE LET new == Merge(store.contracts[contract_id], v)
         IN  Result("OK", Some([id |-> contract_id] @@ new),
                    Put(store, "contracts", contract_id, new))

DM_disable_contract(store, contract_id, disabled_at, current_user_id, now) ==
    IF contract_id \notin DOMAIN store.contracts
    THEN Result("NOT_FOUND", None, store)
    ELSE IF ~IsOwner(store.contracts[contract_id], current_user_id)
    THEN Result("FORBIDDEN", None, store)
    ELSE LET effective == IF disabled_at = None THEN Some(now) ELSE disabled_at
             new == [store.contracts[contract_id] EXCEPT
                        !.disabled = Some(TRUE), !.disabled_at = effective]
         IN  Result("OK",
                    Some([id |-> contract_id, name |-> new.name,
                          disabled_at |-> effective]),
                    Put(store, "contracts", contract_id, new))

(***************************************************************************)
(* Data manager: events.  An event is guarded by its parent contract.      *)
(***************************************************************************)
\* The actor is the creator of the contract the event record names.
IsEventParty(store, rec, actor) ==
    /\ rec.contract_id # None
    /\ Get(rec.contract_id) \in DOMAIN store.contracts
    /\ IsOwner(store.contracts[Get(rec.contract_id)], actor)

EventRefsDangling(store, v) ==
    \/ Dangling(store, "contracts", v, "contract_id")
    \/ Dangling(store, "profiles", v, "profile_offeror_id")
    \/ Dangling(store, "profiles", v, "profile_offeree_id")
    \/ Dangling(store, "accommodations", v, "accommodation_id")

EventRefsCleared(v) ==
    \/ Cleared(v, "contract_id")
    \/ Cleared(v, "profile_offeror_id")
    \/ Cleared(v, "profile_offeree_id")

DM_create_event(store, v, current_user_id) ==
    IF EventRefsDangling(store, v)
    THEN Result("NOT_FOUND", None, store)
    ELSE IF ~IsEventParty(store, v.data, current_user_id)
    THEN Result("FORBIDDEN", None, store)
    ELSE Result("OK", Some(store.next.events), Insert(store, "events", v.data))

\* A read that hides what the actor may not see behind an empty success.
DM_get_event_by_id_silent(store, event_id, current_user_id) ==
    IF event_id \notin DOMAIN store.events
    THEN Result("NOT_FOUND", None, store)
    ELSE IF ~IsEventParty(store, store.events[event_id], current_user_id)
    THEN Result("OK", None, store)
    ELSE Result("OK", Some([id |-> event_id] @@ store.events[event_id]), store)

DM_get_event_by_id(store, event_id, current_user_id) ==
    IF event_id \notin DOMAIN store.events
    THEN Result("NOT_FOUND", None, store)
    ELSE IF ~IsEventParty(store, store.events[event_id], current_user_id)
    THEN Result("FORBIDDEN", None, store)
    ELSE Result("OK", Some([id |-> event_id] @@ store.events[event_id]), store)

DM_update_event(store, event_id, v, current_user_id) ==
    IF event_id \notin DOMAIN store.events
    THEN Result("NOT_FOUND", None, store)
    ELSE IF ~IsEventParty(store, store.events[event_id], current_user_id)
    THEN Result("FORBIDDEN", None, store)
    ELSE IF EventRefsDangling(store, v)
    THEN Result("NOT_FOUND", None, store)
    ELSE IF EventRefsCleared(v)
    THEN Result("CONFLICT", None, store)
    ELSE LET new == Merge(store.events[event_id], v)
         IN  IF ~IsEventParty(store, new, current_user_id)
             THEN Result("FORBIDDEN", None, store)
             ELSE Result("OK", Some([id |-> event_id] @@ new),
                         Put(store, "events", event_id, new))

\* A delete that reports a foreign event as missing.
DM_delete_event_hiding(store, event_id, current_user_id) ==
    IF event_id \notin DOMAIN store.events
    THEN Result("NOT_FOUND", None, store)
    ELSE IF ~IsEventParty(store, store.events[event_id], current_user_id)
    THEN Result("NOT_FOUND", None, store)
    ELSE Result("OK", Some(TRUE), Remove(store, "events", event_id))

DM_delete_event(store, event_id, current_user_id) ==
    IF event_id \notin DOMAIN store.events
    THEN Result("NOT_FOUND", None, store)
    ELSE IF ~IsEventParty(store, store.events[event_id], current_user_id)
    THEN Result("FORBIDDEN", None, store)
    ELSE Result("OK", Some(TRUE), Remove(store, "events", event_id))

(***************************************************************************)
(* Data manager: accommodations.  No ownership is recorded or checked.     *)
(***************************************************************************)
AccommodationReferenced(store, accommodation_id) ==
    \E e \in DOMAIN store.events :
        store.events[e].accommodation_id = Some(accommodation_id)

DM_create_accommodation(store, v) ==
    Result("OK", Some(store.next.accommodations),
           Insert(store, "accommodations", v.data))

DM_get_accommodation_by_id(store, accommodation_id) ==
    IF accommodation_id \notin DOMAIN store.accommodations
    THEN Result("NOT_FOUND", None, store)
    ELSE Result("OK",
                Some([id |-> accommodation_id]
                        @@ store.accommodations[accommodation_id]),
                store)

DM_update_accommodation(store, accommodation_id, v) ==
    IF accommodation_id \notin DOMAIN store.accommodations
    THEN Result("NOT_FOUND", None, store)
    ELSE LET new == Merge(store.accommodations[accommodation_id], v)
         IN  Result("OK", Some([id |-> accommodation_id] @@ new),
                    Put(store, "accommodations", accommodation_id, new))

DM_delete_accommodation(store, accommodation_id) ==
    IF accommodation_id \notin DOMAIN store.accommodations
    THEN Result("NOT_FOUND", None, store)
    ELSE IF AccommodationReferenced(store, accommodation_id)
    THEN Result("CONFLICT", None, store)
    ELSE Result("OK", Some(TRUE), Remove(store, "accommodations", accommodation_id))

(***************************************************************************)
(* The credential check in front of every authenticated route.             *)
(***************************************************************************)
Authenticated(store, actor) ==
    /\ actor \in DOMAIN store.users
    /\ store.users[actor].is_active = Some(TRUE)

(***************************************************************************)
(* Request handlers.  dm tells whether the data manager was called.        *)
(***************************************************************************)
Out(status, data, store, dm) ==
    [status |-> status, data |-> data, db |-> store, dm |-> dm]

Rejected(status, store) == Out(status, None, store, FALSE)

Called(d) == Out(d.status, d.data, d.db, TRUE)

\* POST /user
sign_up(store, r) ==
    LET v == PydanticValidate(UserCreatePydantic, r.payload, r.now)
    IN  IF v.outcome # "OK" THEN Rejected(v.outcome, store)
        ELSE Called(DM_create_user(store, v))

\* GET /user/me/ reading the user an id of the request names.
get_user_me_by_id(store, r) ==
    IF ~Authenticated(store, r.actor) THEN Rejected("UNAUTHORIZED", store)
    ELSE Called(DM_get_user_by_id(store, r.id))

\* GET /user/me/
get_user_me(store, r) ==
    IF ~Authenticated(store, r.actor) THEN Rejected("UNAUTHORIZED", store)
    ELSE Called(DM_get_user_by_id(store, r.actor))

\* PUT /user
update_user(store, r) ==
    IF ~Authenticated(store, r.actor) THEN Rejected("UNAUTHORIZED", store)
    ELSE LET v == PydanticValidate(UserUpdatePydantic, r.payload, r.now)
         IN  IF v.outcome # "OK" THEN Rejected(v.outcome, store)
             ELSE Called(DM_update_user(store, v, r.actor))

\* PATCH /user without the deactivation_date of the request forwarded.
soft_delete_user_dropping_date(store, r) ==
    IF ~Authenticated(store, r.actor) THEN Rejected("UNAUTHORIZED", store)
    ELSE Called(DM_soft_delete_user(store, None, r.actor, r.now))

\* PATCH /user
soft_delete_user(store, r) ==
    IF ~Authenticated(store, r.actor) THEN Rejected("UNAUTHORIZED", store)
    ELSE Called(DM_soft_delete_user(store, r.ts, r.actor, r.now))

\* POST /profile
create_profile(store, r) ==
    IF ~Authenticated(store, r.actor) THEN Rejected("UNAUTHORIZED", store)
    ELSE LET v == PydanticValidate(ProfilePydantic, r.payload, r.now)
         IN  IF v.outcome # "OK" THEN Rejected(v.outcome, store)
             ELSE Called(DM_create_profile(store, v, r.actor))

\* GET /profile/{profile_id}
get_profile(store, r) == Called(DM_get_profile_by_id(store, r.id))

\* The identity handed to the data manager when the handler does not forward
\* the authenticated user: the owner recorded on the instance.
RecordedOwner(store, kind, id, actor) ==
    IF id \in DOMAIN store[kind] THEN store[kind][id].user_id ELSE actor

\* PUT /profile/{profile_id} without the authenticated user forwarded.
update_profile_unforwarded(store, r) ==
    IF ~Authenticated(store, r.actor) THEN Rejected("UNAUTHORIZED", store)
    ELSE LET v == PydanticValidate(ProfilePydantic, r.payload, r.now)
         IN  IF v.outcome # "OK" THEN Rejected(v.outcome, store)
             ELSE Called(DM_update_profile(store, r.id, v,
                            RecordedOwner(store, "profiles", r.id, r.actor)))

\* PUT /profile/{profile_id}: the body is validated as a ProfilePydantic.
update_profile(store, r) ==
    IF ~Authenticated(store, r.actor) THEN Rejected("UNAUTHORIZED", store)
    ELSE LET v == PydanticValidate(ProfilePydantic, r.payload, r.now)
         IN  IF v.outcome # "OK" THEN Rejected(v.outcome, store)
             ELSE Called(DM_update_profile(store, r.id, v, r.actor))

\* DELETE /profile/{profile_id}
delete_profile(store, r) ==
    IF ~Authenticated(store, r.actor) THEN Rejected("UNAUTHORIZED", store)
    ELSE Called(DM_delete_profile(store, r.id, r.actor))

\* POST /contract with the body taken as it comes.
create_contract_unvalidated(store, r) ==
    IF ~Authenticated(store, r.actor) THEN Rejected("UNAUTHORIZED", store)
    ELSE LET v == NoValidate(ContractPydantic, r.payload, r.now)
         IN  Called(DM_create_contract(store, v, r.actor))

\* POST /contract
create_contract(store, r) ==
    IF ~Authenticated(store, r.actor) THEN Rejected("UNAUTHORIZED", store)
    ELSE LET v == PydanticValidate(ContractPydantic, r.payload, r.now)
         IN  IF v.outcome # "OK" THEN Rejected(v.outcome, store)
             ELSE Called(DM_create_contract(store, v, r.actor))

\* GET /contract/{contract_id}: the contract, then the ids of its events.
get_contract(store, r) ==
    IF ~Authenticated(store, r.actor) THEN Rejected("UNAUTHORIZED", store)
    ELSE LET c == DM_get_contract_by_id(store, r.id, r.actor)
             e == DM_get_contract_events(store, r.id, r.actor)
         IN  IF c.status # "OK" THEN Called(c)
             ELSE IF e.status # "OK" THEN Called(e)
             ELSE Called(Result("OK",
                                Some([contract_data |-> Get(c.data),
                                      contract_event_ids |-> Get(e.data)]),
                                store))

\* PUT /contract/{contract_id}
update_contract(store, r) ==
    IF ~Authenticated(store, r.actor) THEN Rejected("UNAUTHORIZED", store)
    ELSE LET v == PydanticValidate(ContractUpdatePydantic, r.payload, r.now)
         IN  IF v.outcome # "OK" THEN Rejected(v.outcome, store)
             ELSE Called(DM_update_contract(store, r.id, v, r.actor))

\* PATCH /contract/{contract_id}: disable_at is a query parameter without a
\* default, so a request that does not carry it is rejected.
disable_contract(store, r) ==
    IF ~Authenticated(store, r.actor) THEN Rejected("UNAUTHORIZED", store)
    ELSE IF r.ts = None THEN Rejected("VALIDATION_ERROR", store)
    ELSE Called(DM_disable_contract(store, r.id, r.ts, r.actor, r.now))

\* POST /event
create_event(store, r) ==
    IF ~Authenticated(store, r.actor) THEN Rejected("UNAUTHORIZED", store)
    ELSE LET v == PydanticValidate(EventPydantic, r.payload, r.now)
         IN  IF v.outcome # "OK" THEN Rejected(v.outcome, store)
             ELSE Called(DM_create_event(store, v, r.actor))

\* GET /event/{event_id}
get_event(store, r) ==
    IF ~Authenticated(store, r.actor) THEN Rejected("UNAUTHORIZED", store)
    ELSE Called(DM_get_event_by_id(store, r.id, r.actor))

\* PUT /event/{event_id}
update_event(store, r) ==
    IF ~Authenticated(store, r.actor) THEN Rejected("UNAUTHORIZED", store)
    ELSE LET v == PydanticValidate(EventUpdatePydantic, r.payload, r.now)
         IN  IF v.outcome # "OK" THEN Rejected(v.outcome, store)
             ELSE Called(DM_update_event(store, r.id, v, r.actor))

\* DELETE /event/{event_id}
delete_event(store, r) ==
    IF ~Authenticated(store, r.actor) THEN Rejected("UNAUTHORIZED", store)
    ELSE Called(DM_delete_event(store, r.id, r.actor))

\* POST /accommodation behind the credential check of the other routes.
create_accommodation_with_credential(store, r) ==
    IF ~Authenticated(store, r.actor) THEN Rejected("UNAUTHORIZED", store)
    ELSE LET v == PydanticValidate(AccommodationPydantic, r.payload, r.now)
         IN  IF v.outcome # "OK" THEN Rejected(v.outcome, store)
             ELSE Called(DM_create_accommodation(store, v))

\* POST /accommodation: no credential is asked for.
create_accommodation(store, r) ==
    LET v == PydanticValidate(AccommodationPydantic, r.payload, r.now)
    IN  IF v.outcome # "OK" THEN Rejected(v.outcome, store)
        ELSE Called(DM_create_accommodation(store, v))

\* GET /accommodation/{accommodation_id}
get_accommodation(store, r) ==
    IF ~Authenticated(store, r.actor) THEN Rejected("UNAUTHORIZED", store)
    ELSE Called(DM_get_accommodation_by_id(store, r.id))

\* PUT /accommodation/{accommodation_id}
update_accommodation(store, r) ==
    IF ~Authenticated(store, r.actor) THEN Rejected("UNAUTHORIZED", store)
    ELSE LET v == PydanticValidate(AccommodationUpdatePydantic, r.payload, r.now)
         IN  IF v.outcome # "OK" THEN Rejected(v.outcome, store)
             ELSE Called(DM_update_accommodation(store, r.id, v))

\* DELETE /accommodation/{accommodation_id}
delete_accommodation(store, r) ==
    IF ~Authenticated(store, r.actor) THEN Rejected("UNAUTHORIZED", store)
    ELSE Called(DM_delete_accommodation(store, r.id))

(***************************************************************************)
(* Routing.  A path is the sequence of its segments; "{}" in a route's     *)
(* path stands for a path parameter, which matches any one segment.  The   *)
(* router tries the routes in the order of their registration and hands    *)
(* the request to the first whose method and path match.                   *)
(***************************************************************************)
Route(method, path, endpoint) ==
    [method |-> method, path |-> path, endpoint |-> endpoint]

Routes ==
    << Route("GET", <<>>, "root"),
       Route("POST", <<"token">>, "login_for_access_token"),
       Route("POST", <<"user">>, "sign_up"),
       Route("GET", <<"user", "me">>, "get_user_me"),
       Route("PUT", <<"user">>, "update_user"),
       Route("PATCH", <<"user">>, "soft_delete_user"),
       Route("POST", <<"profile">>, "create_profile"),
       Route("GET", <<"profile", "{}">>, "get_profile"),
       Route("PUT", <<"profile", "{}">>, "update_profile"),
       Route("DELETE", <<"profile", "{}">>, "delete_profile"),
       Route("POST", <<"contract">>, "create_contract"),
       Route("GET", <<"contract", "{}">>, "get_contract"),
       Route("PUT", <<"contract", "{}">>, "update_contract"),
       Route("PATCH", <<"contract", "{}">>, "disable_contract"),
       Route("GET", <<"contract", "itinerary">>, "show_itinerary"),
       Route("POST", <<"event">>, "create_event"),
       Route("GET", <<"event", "{}">>, "get_event"),
       Route("PUT", <<"event", "{}">>, "update_event"),
       Route("DELETE", <<"event", "{}">>, "delete_event"),
       Route("POST", <<"accommodation">>, "create_accommodation"),
       Route("GET", <<"accommodation", "{}">>, "get_accommodation"),
       Route("PUT", <<"accommodation", "{}">>, "update_accommodation"),
       Route("DELETE", <<"accommodation", "{}">>, "delete_accommodation") >>

PathMatch(pattern, path) ==
    /\ Len(pattern) = Len(path)
    /\ \A i \in 1..Len(pattern) : pattern[i] = "{}" \/ pattern[i] = path[i]

\* The endpoint of the first matching route, "none" when no route matches.
Dispatch(method, path) ==
    LET matching == {i \in 1..Len(Routes) :
                        /\ Routes[i].method = method
                        /\ PathMatch(Routes[i].path, path)}
    IN  IF matching = {} THEN "none"
        ELSE Routes[CHOOSE i \in matching : \A j \in matching : i <= j].endpoint

\* A path parameter declared int: the segments that parse (a sample) and
\* their values.
IdRange == 0..(MaxProfiles + MaxContracts + MaxEvents + MaxAccommodations)
IntText(seg) == \E i \in IdRange : ToString(i) = seg
ParseInt(seg) == CHOOSE i \in IdRange : ToString(i) = seg

\* GET /
root(store, r) == Out("OK", Some([message |-> "Welcome to my MVP"]), store, FALSE)

\* GET /contract/itinerary
show_itinerary(store, r) ==
    Out("OK", Some([message |-> "Shows Itinerary"]), store, FALSE)

\* A GET request as the application serves it: the endpoint the router picks,
\* its dependencies, the conversion of its path parameter, then its body.
ServeGet(store, path, r) ==
    LET endpoint == Dispatch("GET", path)
        byId == [r EXCEPT !.op = endpoint,
                          !.id = IF Len(path) = 2 /\ IntText(path[2])
                                 THEN ParseInt(path[2]) ELSE 0]
        open == endpoint \in {"root", "show_itinerary", "get_profile"}
    IN  IF endpoint = "none" THEN Rejected("NOT_FOUND", store)
        ELSE IF ~open /\ ~Authenticated(store, r.actor)
        THEN Rejected("UNAUTHORIZED", store)
        ELSE IF endpoint = "root" THEN root(store, byId)
        ELSE IF endpoint = "show_itinerary" THEN show_itinerary(store, byId)
        ELSE IF endpoint = "get_user_me" THEN get_user_me(store, byId)
        ELSE IF ~IntText(path[2]) THEN Rejected("VALIDATION_ERROR", store)
        ELSE IF endpoint = "get_profile" THEN get_profile(store, byId)
        ELSE IF endpoint = "get_contract" THEN get_contract(store, byId)
        ELSE IF endpoint = "get_event" THEN get_event(store, byId)
        ELSE get_accommodation(store, byId)

(***************************************************************************)
(* Requests.                                                               *)
(***************************************************************************)
UserIds == 1..MaxUsers
ProfileIds == 1..MaxProfiles
ContractIds == 1..MaxContracts
EventIds == 1..MaxEvents
AccommodationIds == 1..MaxAccommodations

Request(op, actor, id, payload, ts, now) ==
    [op |-> op, actor |-> actor, id |-> id, payload |-> payload, ts |-> ts,
     now |-> now]

NoRequest == Request("none", 0, 0, <<>>, None, 1)

NoResponse == [status |-> "none", data |-> None, dm |-> FALSE]

\* A field that is absent, or present with one of the values of S.
Opt(f, S) == {<<>>} \cup {(f :> v) : v \in S}

P1 == <<"+", "1", "2">>
P2 == <<"3", "-", "4">>
PBad == <<"1", "x">>

TimeInputs == {Some(t) : t \in Times}
Refs(S) == {Some(i) : i \in S}

\* The payloads of the user life cycle, field by field.
UserCreatePayloads ==
    {a @@ b @@ c : a \in Opt("phone_number", {Some(P1), Some(P2), Some(PBad)}),
                   b \in Opt("is_active", {Some(FALSE)}),
                   c \in Opt("deactivation_date", TimeInputs)}

UserUpdatePayloads ==
    {a @@ b @@ c :
        a \in Opt("phone_number", {None, Some(P1), Some(P2), Some(PBad)}),
        b \in Opt("is_active", {Some(TRUE), Some(FALSE)}),
        c \in Opt("deactivation_date", {None} \cup TimeInputs)}

ProfilePayloads ==
    {a @@ b : a \in Opt("name", {Some("n1"), Some("n2")}),
              b \in Opt("website", {None, Some("http://w1"), Some("not a url")})}

ContractCreatePayloads ==
    {a @@ b @@ c @@ d :
        a \in Opt("name", {Some("c1"), Some("c2")}),
        b \in Opt("offeree_id", Refs(ProfileIds)),
        c \in Opt("currency_code", {Some("USD"), Some("ZZZ")}),
        d \in {<<>>} \cup {[disabled |-> Some(TRUE), disabled_at |-> t] :
                              t \in TimeInputs}}

ContractUpdatePayloads ==
    {a @@ b @@ c @@ d :
        a \in Opt("name", {Some("c1"), Some("c2")}),
        b \in Opt("offeree_id", {None} \cup Refs(ProfileIds)),
        c \in Opt("currency_code", {Some("USD"), Some("ZZZ")}),
        d \in Opt("disabled", {Some(FALSE)})}

\* One payload that passes validation and one that violates a constraint,
\* for every operation that takes a payload.
UserCreateClasses == {[phone_number |-> Some(P1)], [phone_number |-> Some(PBad)]}

UserUpdateClasses == {[phone_number |-> Some(P1)], [phone_number |-> Some(PBad)]}

ProfileClasses ==
    {[name |-> Some("n1")], [name |-> Some("n1"), website |-> Some("not a url")]}

ContractClasses ==
    {[name |-> Some("c1"), offeree_id |-> Some(p), currency_code |-> c] :
        p \in ProfileIds, c \in {Some("USD"), Some("ZZZ")}}

EventRefPayloads ==
    {[contract_id |-> Some(c), profile_offeror_id |-> Some(p),
      profile_offeree_id |-> Some(p), date |-> Some(MaxTime),
      duration |-> Some(1)] @@ a :
        c \in ContractIds, p \in ProfileIds,
        a \in Opt("accommodation_id", Refs(AccommodationIds))}

EventClasses ==
    EventRefPayloads \cup
    {[contract_id |-> Some(1), profile_offeror_id |-> Some(1),
      profile_offeree_id |-> Some(1), date |-> d, duration |-> n] :
        d \in {Some(0), Some(MaxTime)}, n \in {Some(0)}}

AccommodationClasses ==
    {[name |-> Some("a1"), telephone_number |-> t] : t \in {Some(P1), Some(PBad)}}

\* The payloads of the operations that take a payload, with every reference
\* to the first instance of its kind.
ContractFirstClasses == {p \in ContractClasses : p.offeree_id = Some(1)}

EventFirstClasses ==
    {p \in EventClasses : /\ p.contract_id = Some(1)
                          /\ p.profile_offeror_id = Some(1)
                          /\ "accommodation_id" \notin DOMAIN p}

\* Well-formed payloads that differ in what they refer to.
ContractRefPayloads ==
    {[name |-> Some("c1"), offeree_id |-> o, currency_code |-> Some("USD")] :
        o \in {None} \cup Refs(ProfileIds)}

\* The event payloads without an accommodation.
EventPlainClasses == {p \in EventClasses : "accommodation_id" \notin DOMAIN p}

\* Contract payloads that differ in their currency code: codes of the
\* enumeration, a string that is no code, a code in lower case, no string.
CurrencySamples == {"USD", "EUR", "XXX", "ZZZ", "usd", ""}

ContractCurrencyPayloads ==
    {[name |-> Some("c1"), offeree_id |-> Some(o), currency_code |-> Some(c)] :
        o \in ProfileIds, c \in CurrencySamples}

\* The accommodation payloads, field by field.
AccommodationPayloads ==
    {a @@ b : a \in Opt("name", {Some("a1"), Some("a2")}),
              b \in Opt("telephone_number", {Some(P1), Some(P2), Some(PBad)})}

\* Update payloads with an explicit null, and their like with a value.
UserNullPayloads ==
    {[phone_number |-> v] : v \in {None, Some(P2)}}
        \cup {[deactivation_date |-> None]}

ContractNullPayloads ==
    {[name |-> Some("c2"), offeree_id |-> Some(1), currency_code |-> c] :
        c \in {None, Some("EUR")}}

EventFull ==
    [contract_id |-> Some(1), profile_offeror_id |-> Some(1),
     profile_offeree_id |-> Some(1), contact_phone |-> Some(P1),
     date |-> Some(MaxTime), duration |-> Some(1), stage_set |-> Some(20)]

EventNullPayloads ==
    {EventFull} \cup
    {[EventFull EXCEPT ![f] = None] :
        f \in {"contact_phone", "date", "duration", "stage_set"}}

\* Telephone numbers as the requests carry them, one per payload.
PSpaced == <<"1", " ", "2">>

PhoneSamples == {P1, P2, PSpaced, PBad}

UserPhonePayloads == {[phone_number |-> Some(p)] : p \in PhoneSamples}

AccommodationPhonePayloads ==
    {[name |-> Some("a1"), telephone_number |-> Some(p)] : p \in PhoneSamples}

EventPhonePayloads ==
    {[contract_id |-> Some(1), profile_offeror_id |-> Some(1),
      profile_offeree_id |-> Some(1), date |-> Some(MaxTime),
      duration |-> Some(1), contact_phone |-> Some(p)] : p \in PhoneSamples}

\* Event payloads about the first contract and profile, dated from the day
\* before the first day of the clock to its last day.
EventDatePayloads ==
    {[contract_id |-> Some(1), profile_offeror_id |-> Some(1),
      profile_offeree_id |-> Some(1), date |-> Some(d), duration |-> Some(n)] :
        d \in 0..MaxTime, n \in {0, 1}}

(***************************************************************************)
(* One request, answered in one step.                                      *)
(***************************************************************************)
\* The store is idle: no request is being answered.
Idle == req = NoRequest

Respond(r, out) ==
    /\ Idle
    /\ db' = out.db
    /\ pre' = db
    /\ req' = r
    /\ resp' = [status |-> out.status, data |-> out.data, dm |-> out.dm]

\* The response leaves the handler; the unit of work is over.
Reply ==
    /\ ~Idle
    /\ req' = NoRequest
    /\ resp' = NoResponse
    /\ pre' = db
    /\ UNCHANGED db

SignUp(Payloads) ==
    /\ db.next.users <= MaxUsers
    /\ \E p \in Payloads :
          LET r == Request("sign_up", 0, 0, p, None, 1)
          IN  Respond(r, sign_up(db, r))

GetUserMe ==
    /\ Idle
    /\ \E a \in UserIds, i \in UserIds :
          LET r == Request("get_user_me", a, i, <<>>, None, 1)
          IN  Respond(r, get_user_me(db, r))

UpdateUser(Payloads) ==
    /\ Idle
    /\ \E a \in UserIds, p \in Payloads :
          LET r == Request("update_user", a, 0, p, None, 1)
          IN  Respond(r, update_user(db, r))

SoftDeleteUser ==
    /\ Idle
    /\ \E a \in UserIds, ts \in {None} \cup TimeInputs, now \in Times :
          LET r == Request("soft_delete_user", a, 0, <<>>, ts, now)
          IN  Respond(r, soft_delete_user(db, r))

CreateProfile(Payloads) ==
    /\ db.next.profiles <= MaxProfiles
    /\ \E a \in UserIds, p \in Payloads :
          LET r == Request("create_profile", a, 0, p, None, 1)
          IN  Respond(r, create_profile(db, r))

GetProfile ==
    /\ Idle
    /\ \E i \in ProfileIds :
          LET r == Request("get_profile", 0, i, <<>>, None, 1)
          IN  Respond(r, get_profile(db, r))

UpdateProfile(Payloads) ==
    /\ Idle
    /\ \E a \in UserIds, i \in ProfileIds, p \in Payloads :
          LET r == Request("update_profile", a, i, p, None, 1)
          IN  Respond(r, update_profile(db, r))

DeleteProfile ==
    /\ Idle
    /\ \E a \in UserIds, i \in ProfileIds :
          LET r == Request("delete_profile", a, i, <<>>, None, 1)
          IN  Respond(r, delete_profile(db, r))

CreateContract(Payloads) ==
    /\ db.next.contracts <= MaxContracts
    /\ \E a \in UserIds, p \in Payloads :
          LET r == Request("create_contract", a, 0, p, None, 1)
          IN  Respond(r, create_contract(db, r))

GetContract ==
    /\ Idle
    /\ \E a \in UserIds, i \in ContractIds :
          LET r == Request("get_contract", a, i, <<>>, None, 1)
          IN  Respond(r, get_contract(db, r))

UpdateContract(Payloads) ==
    /\ Idle
    /\ \E a \in UserIds, i \in ContractIds, p \in Payloads :
          LET r == Request("update_contract", a, i, p, None, 1)
          IN  Respond(r, update_contract(db, r))

DisableContract(Stamps, Clock) ==
    /\ Idle
    /\ \E a \in UserIds, i \in ContractIds, ts \in Stamps, now \in Clock :
          LET r == Request("disable_contract", a, i, <<>>, ts, now)
          IN  Respond(r, disable_contract(db, r))

CreateEvent(Payloads, Clock) ==
    /\ db.next.events <= MaxEvents
    /\ \E a \in UserIds, p \in Payloads, now \in Clock :
          LET r == Request("create_event", a, 0, p, None, now)
          IN  Respond(r, create_event(db, r))

GetEvent ==
    /\ Idle
    /\ \E a \in UserIds, i \in EventIds :
          LET r == Request("get_event", a, i, <<>>, None, 1)
          IN  Respond(r, get_event(db, r))

UpdateEvent(Payloads, Clock) ==
    /\ Idle
    /\ \E a \in UserIds, i \in EventIds, p \in Payloads, now \in Clock :
          LET r == Request("update_event", a, i, p, None, now)
          IN  Respond(r, update_event(db, r))

DeleteEvent ==
    /\ Idle
    /\ \E a \in UserIds, i \in EventIds :
          LET r == Request("delete_event", a, i, <<>>, None, 1)
          IN  Respond(r, delete_event(db, r))

CreateAccommodation(Payloads) ==
    /\ db.next.accommodations <= MaxAccommodations
    /\ \E p \in Payloads :
          LET r == Request("create_accommodation", 0, 0, p, None, 1)
          IN  Respond(r, create_accommodation(db, r))

GetAccommodation ==
    /\ Idle
    /\ \E a \in UserIds, i \in AccommodationIds :
          LET r == Request("get_accommodation", a, i, <<>>, None, 1)
          IN  Respond(r, get_accommodation(db, r))

UpdateAccommodation(Payloads) ==
    /\ Idle
    /\ \E a \in UserIds, i \in AccommodationIds, p \in Payloads :
          LET r == Request("update_accommodation", a, i, p, None, 1)
          IN  Respond(r, update_accommodation(db, r))

DeleteAccommodation ==
    /\ Idle
    /\ \E a \in UserIds, i \in AccommodationIds :
          LET r == Request("delete_accommodation", a, i, <<>>, None, 1)
          IN  Respond(r, delete_accommodation(db, r))

\* The paths of the GET requests: every collection with the text of an id,
\* "itinerary" and "me" in the place of the id, and the root.
GetPaths ==
    {<<>>} \cup
    {<<c, x>> : c \in {"user", "profile", "contract", "event", "accommodation"},
                x \in {ToString(i) : i \in 1..MaxContracts}
                         \cup {"itinerary", "me"}}

\* A GET request on a path, recorded with the endpoint that served it.
GetPath(Paths) ==
    /\ Idle
    /\ \E a \in UserIds, path \in Paths :
          LET r == Request("GET", a, 0, [path |-> path], None, 1)
              endpoint == Dispatch("GET", path)
              id == IF Len(path) = 2 /\ IntText(path[2])
                    THEN ParseInt(path[2]) ELSE 0
          IN  Respond([r EXCEPT !.op = endpoint, !.id = id],
                      ServeGet(db, path, r))

(***************************************************************************)
(* Stores to start from and the specifications.                            *)
(***************************************************************************)
\* The store after MaxUsers sign-ups.
StoreWithUsers ==
    [EmptyStore EXCEPT
        !.users = [u \in UserIds |->
                      [phone_number |-> Some(P1), is_active |-> Some(TRUE),
                       deactivation_date |-> None]],
        !.next.users = MaxUsers + 1]

\* The store after the first sign-up.
StoreWithOneUser ==
    [EmptyStore EXCEPT
        !.users = [u \in {1} |->
                      [phone_number |-> Some(P1), is_active |-> Some(TRUE),
                       deactivation_date |-> None]],
        !.next.users = 2]

\* ... and after the users have created MaxProfiles profiles in turn.
StoreWithProfiles ==
    [StoreWithUsers EXCEPT
        !.profiles = [i \in ProfileIds |->
                         [name |-> Some("n1"), website |-> None,
                          user_id |-> (i % MaxUsers) + 1]],
        !.next.profiles = MaxProfiles + 1]

\* ... and MaxContracts contracts in turn, each offered to one of the profiles.
StoreWithContracts ==
    [StoreWithProfiles EXCEPT
        !.contracts = [i \in ContractIds |->
                          [name |-> Some("c1"),
                           offeree_id |-> Some(((i - 1) % MaxProfiles) + 1),
                           currency_code |-> Some("USD"),
                           disabled |-> Some(FALSE), disabled_at |-> None,
                           user_id |-> ((i - 1) % MaxUsers) + 1]],
        !.next.contracts = MaxContracts + 1]

InitFrom(store) ==
    /\ db = store
    /\ pre = store
    /\ req = NoRequest
    /\ resp = NoResponse

Init == InitFrom(EmptyStore)

\* The whole request surface, one valid and one invalid payload per operation.
Next ==
    \/ SignUp(UserCreateClasses)
    \/ GetUserMe
    \/ UpdateUser(UserUpdateClasses)
    \/ SoftDeleteUser
    \/ CreateProfile(ProfileClasses)
    \/ GetProfile
    \/ UpdateProfile(ProfileClasses)
    \/ DeleteProfile
    \/ CreateContract(ContractClasses)
    \/ GetContract
    \/ UpdateContract(ContractClasses)
    \/ DisableContract({None, Some(1)}, {1})
    \/ CreateEvent(EventClasses, {1})
    \/ GetEvent
    \/ UpdateEvent(EventClasses, {1})
    \/ DeleteEvent
    \/ CreateAccommodation(AccommodationClasses)
    \/ GetAccommodation
    \/ UpdateAccommodation(AccommodationClasses)
    \/ DeleteAccommodation
    \/ GetPath(GetPaths)
    \/ Reply

Spec == Init /\ [][Next]_vars

\* The user life cycle, every payload.
NextUser ==
    \/ SignUp(UserCreatePayloads)
    \/ GetUserMe
    \/ UpdateUser(UserUpdatePayloads)
    \/ SoftDeleteUser
    \/ Reply

SpecUser == Init /\ [][NextUser]_vars

\* The profile life cycle among the signed-up users, every payload.
InitProfile == InitFrom(StoreWithUsers)

NextProfile ==
    \/ CreateProfile(ProfilePayloads)
    \/ GetProfile
    \/ UpdateProfile(ProfilePayloads)
    \/ DeleteProfile
    \/ Reply

SpecProfile == InitProfile /\ [][NextProfile]_vars

\* The contract life cycle among the users and their profiles, every payload.
InitContract == InitFrom(StoreWithProfiles)

NextContract ==
    \/ CreateContract(ContractCreatePayloads)
    \/ GetContract
    \/ UpdateContract(ContractUpdatePayloads)
    \/ DisableContract({None} \cup TimeInputs, Times)
    \/ Reply

SpecContract == InitContract /\ [][NextContract]_vars

\* Every operation that takes a payload, from the empty store.
NextPayload ==
    \/ SignUp(UserCreateClasses)
    \/ UpdateUser(UserUpdateClasses)
    \/ CreateProfile(ProfileClasses)
    \/ UpdateProfile(ProfileClasses)
    \/ CreateContract(ContractFirstClasses)
    \/ UpdateContract(ContractFirstClasses)
    \/ CreateEvent(EventFirstClasses, {1})
    \/ UpdateEvent(EventFirstClasses, {1})
    \/ CreateAccommodation(AccommodationClasses)
    \/ UpdateAccommodation(AccommodationClasses)
    \/ Reply

SpecPayload == Init /\ [][NextPayload]_vars

\* The operations by id on the owned kinds, among the users, their profiles
\* and their contracts.
InitAccess == InitFrom(StoreWithContracts)

NextAccess ==
    \/ UpdateProfile(ProfileClasses)
    \/ DeleteProfile
    \/ GetContract
    \/ UpdateContract(ContractClasses)
    \/ DisableContract({None, Some(1)}, {1})
    \/ CreateEvent(EventPlainClasses, {1})
    \/ GetEvent
    \/ UpdateEvent(EventPlainClasses, {1})
    \/ DeleteEvent
    \/ Reply

SpecAccess == InitAccess /\ [][NextAccess]_vars

\* The operations that store, move or remove a reference, with one user
\* signed up: every instance is the actor's own, no ownership rule stands
\* between a request and the references it writes.
InitRefs == InitFrom(StoreWithOneUser)

NextRefs ==
    \/ CreateProfile({[name |-> Some("n1")]})
    \/ DeleteProfile
    \/ CreateContract(ContractRefPayloads)
    \/ UpdateContract(ContractRefPayloads)
    \/ CreateEvent(EventRefPayloads, {1})
    \/ UpdateEvent(EventRefPayloads, {1})
    \/ DeleteEvent
    \/ CreateAccommodation({[name |-> Some("a1"), telephone_number |-> Some(P1)]})
    \/ DeleteAccommodation
    \/ Reply

SpecRefs == InitRefs /\ [][NextRefs]_vars

\* The event life cycle as the days pass, among the users, their profiles
\* and their contracts.
NextEvent ==
    \/ CreateEvent(EventDatePayloads, Times)
    \/ GetEvent
    \/ UpdateEvent(EventDatePayloads, Times)
    \/ DeleteEvent
    \/ Reply

\* The contract routes whose payload carries a currency code, among the
\* users and their profiles.
NextCurrency ==
    \/ CreateContract(ContractCurrencyPayloads)
    \/ GetContract
    \/ UpdateContract(ContractCurrencyPayloads)
    \/ Reply

SpecCurrency == InitContract /\ [][NextCurrency]_vars

SpecEvent == InitAccess /\ [][NextEvent]_vars

\* The GET requests by path, among the users, their profiles and their
\* contracts, while contracts are disabled and events come and go.
NextRoute ==
    \/ GetPath(GetPaths)
    \/ DisableContract({Some(1)}, {1})
    \/ CreateEvent({EventFull}, {1})
    \/ DeleteEvent
    \/ Reply

SpecRoute == InitAccess /\ [][NextRoute]_vars

\* Updates that carry an explicit null, among the users, their profiles,
\* their contracts and the events they create.
NextNull ==
    \/ UpdateUser(UserNullPayloads)
    \/ UpdateContract(ContractNullPayloads)
    \/ CreateEvent({EventFull}, {1})
    \/ UpdateEvent(EventNullPayloads, {1})
    \/ Reply

SpecNull == InitAccess /\ [][NextNull]_vars

\* The accommodation life cycle among the signed-up users, every payload.
NextAccommodation ==
    \/ CreateAccommodation(AccommodationPayloads)
    \/ GetAccommodation
    \/ UpdateAccommodation(AccommodationPayloads)
    \/ DeleteAccommodation
    \/ Reply

SpecAccommodation == InitProfile /\ [][NextAccommodation]_vars

\* The operations whose payload carries a telephone number, among the users,
\* their profiles and their contracts.
NextPhone ==
    \/ UpdateUser(UserPhonePayloads)
    \/ CreateEvent(EventPhonePayloads, {1})
    \/ UpdateEvent(EventPhonePayloads, {1})
    \/ CreateAccommodation(AccommodationPhonePayloads)
    \/ UpdateAccommodation(AccommodationPhonePayloads)
    \/ Reply

SpecPhone == InitAccess /\ [][NextPhone]_vars

(***************************************************************************)
(* Properties.  They speak of the request being answered: pre is the       *)
(* store the request met, db the store it left.                            *)
(***************************************************************************)
Answering(ops) == req.op \in ops

\* The values the field rules reject: a telephone number with a letter, a
\* code that is no currency, a string that is no URL, a duration of zero, a
\* date before every day of the clock.
BadValues(f) ==
    CASE f \in {"phone_number", "telephone_number"} -> {Some(PBad)}
      [] f = "currency_code" -> {Some("ZZZ")}
      [] f = "website" -> {Some("not a url")}
      [] f \in {"duration", "date"} -> {Some(0)}
      [] OTHER -> {}

PayloadOps ==
    {"sign_up", "update_user", "create_profile", "update_profile",
     "create_contract", "update_contract", "create_event", "update_event",
     "create_accommodation", "update_accommodation"}

Violates(r) ==
    /\ r.op \in PayloadOps
    /\ \E f \in DOMAIN r.payload : r.payload[f] \in BadValues(f)

\* The request is not turned away before the data manager: the credential
\* is good and the payload and parameters are well-formed.
Admitted(r) ==
    /\ r.actor \in DOMAIN pre.users
    /\ pre.users[r.actor].is_active = Some(TRUE)
    /\ ~Violates(r)
    /\ ~(r.op = "disable_contract" /\ r.ts = None)
    /\ ("path" \in DOMAIN r.payload /\ Len(r.payload.path) = 2)
          => IntText(r.payload.path[2])

CreatorOf(store, contract_id) == store.contracts[contract_id].user_id

\* C1: once a contract is disabled it stays stored and disabled, and every
\* update_contract on it, by any actor with any payload, fails and leaves the
\* contract as it was.
C1_DisabledIsTerminal ==
    \A c \in DOMAIN pre.contracts :
        pre.contracts[c].disabled = Some(TRUE) =>
            /\ c \in DOMAIN db.contracts
            /\ db.contracts[c].disabled = Some(TRUE)
            /\ (Answering({"update_contract"}) /\ req.id = c =>
                    /\ resp.status # "OK"
                    /\ db.contracts[c] = pre.contracts[c])

\* The creator sends a well-formed update to a contract disabled before.
C1_Witness ==
    /\ Answering({"update_contract"})
    /\ req.id \in DOMAIN pre.contracts
    /\ pre.contracts[req.id].disabled = Some(TRUE)
    /\ req.actor = CreatorOf(pre, req.id)
    /\ {"name", "offeree_id", "currency_code"} \subseteq DOMAIN req.payload
    /\ req.payload.name # pre.contracts[req.id].name
    /\ resp.status = "CONFLICT"

C3_OnlyOwnerChangesProfile ==
    /\ (/\ Answering({"update_profile", "delete_profile"})
        /\ req.id \in DOMAIN pre.profiles
        /\ req.actor \in DOMAIN pre.users
        /\ pre.users[req.actor].is_active = Some(TRUE)
        /\ req.actor # pre.profiles[req.id].user_id)
       => /\ resp.status \in {"FORBIDDEN", "VALIDATION_ERROR"}
          /\ (~Violates(req) /\ "name" \in DOMAIN req.payload
                 => resp.status = "FORBIDDEN")
          /\ (Answering({"delete_profile"}) => resp.status = "FORBIDDEN")
          /\ db = pre
    /\ \A p \in DOMAIN pre.profiles :
          (p \notin DOMAIN db.profiles \/ db.profiles[p] # pre.profiles[p])
             => req.actor = pre.profiles[p].user_id

\* Another user sends a well-formed update that would change the profile.
C3_Witness ==
    /\ Answering({"update_profile"})
    /\ req.id \in DOMAIN pre.profiles
    /\ req.actor # pre.profiles[req.id].user_id
    /\ "name" \in DOMAIN req.payload
    /\ req.payload.name # pre.profiles[req.id].name
    /\ resp.status = "FORBIDDEN"

\* C4: a user record changes only through update_user or soft_delete_user
\* of that very user, no user record disappears, and get_user_me and
\* update_user answer with the record of the actor.
C4_OwnUserRecordOnly ==
    /\ DOMAIN pre.users \subseteq DOMAIN db.users
    /\ \A u \in DOMAIN pre.users :
          db.users[u] # pre.users[u]
             => /\ req.actor = u
                /\ Answering({"update_user", "soft_delete_user"})
    /\ (Answering({"get_user_me", "update_user", "soft_delete_user"})
           /\ resp.status = "OK")
          => Get(resp.data).id = req.actor
    /\ (Answering({"get_user_me"}) /\ resp.status = "OK")
          => Get(resp.data) = [id |-> req.actor] @@ pre.users[req.actor]

\* A user reads the own record while the request carries another user's id.
C4_Witness ==
    /\ Answering({"get_user_me"})
    /\ req.id # req.actor
    /\ resp.status = "OK"
    /\ req.id \in DOMAIN pre.users
    /\ pre.users[req.id] # pre.users[req.actor]

\* The entity an update request is about, and how the request may touch it.
UpdateOps ==
    {"update_user", "update_profile", "update_contract", "update_event",
     "update_accommodation"}

UpdateKind(r) ==
    CASE r.op = "update_user" -> "users"
      [] r.op = "update_profile" -> "profiles"
      [] r.op = "update_contract" -> "contracts"
      [] r.op = "update_event" -> "events"
      [] OTHER -> "accommodations"

UpdateId(r) == IF r.op = "update_user" THEN r.actor ELSE r.id

UpdatableFields(r) ==
    CASE r.op = "update_user" -> {"phone_number", "is_active", "deactivation_date"}
      [] r.op = "update_profile" -> {"name", "website"}
      [] r.op = "update_contract" -> {"name", "offeree_id", "currency_code"}
      [] r.op = "update_event" ->
            {"contract_id", "profile_offeror_id", "profile_offeree_id",
             "contact_phone", "date", "duration", "stage_set",
             "accommodation_id"}
      [] OTHER -> {"name", "telephone_number"}

MayUpdate(r) ==
    CASE r.op = "update_profile" -> pre.profiles[r.id].user_id = r.actor
      [] r.op = "update_contract" ->
            /\ CreatorOf(pre, r.id) = r.actor
            /\ pre.contracts[r.id].disabled = Some(FALSE)
      [] r.op = "update_event" ->
            CreatorOf(pre, Get(pre.events[r.id].contract_id)) = r.actor
      [] OTHER -> TRUE

\* A payload with some of the updatable fields, each with a proper value.
ProperPartial(r) ==
    /\ DOMAIN r.payload \subseteq UpdatableFields(r)
    /\ DOMAIN r.payload # UpdatableFields(r)
    /\ DOMAIN r.payload # {}
    /\ \A f \in DOMAIN r.payload :
          /\ r.payload[f] # None
          /\ r.payload[f] \notin BadValues(f)

\* C5: an update whose payload holds only some of the fields is accepted,
\* writes exactly those fields and leaves every other field as stored.
C5_PartialMerge ==
    (/\ Answering(UpdateOps)
     /\ Admitted(req)
     /\ UpdateId(req) \in DOMAIN pre[UpdateKind(req)]
     /\ MayUpdate(req)
     /\ ProperPartial(req))
    => /\ resp.status = "OK"
       /\ LET old == pre[UpdateKind(req)][UpdateId(req)]
              new == db[UpdateKind(req)][UpdateId(req)]
          IN  \A f \in DOMAIN old :
                 new[f] = IF f \in DOMAIN req.payload THEN req.payload[f] ELSE old[f]

\* C6: a payload with a value the field rules reject is answered with a
\* validation error, and a request answered with a validation error has not
\* reached the data manager (neither its store calls nor its ownership
\* checks) and leaves the store as it was.
C6_ValidationFirst ==
    /\ (/\ Violates(req)
        /\ \/ req.op \in {"sign_up", "create_accommodation"}
           \/ /\ req.actor \in DOMAIN pre.users
              /\ pre.users[req.actor].is_active = Some(TRUE))
       => resp.status = "VALIDATION_ERROR"
    /\ resp.status = "VALIDATION_ERROR" => ~resp.dm /\ db = pre

\* An invalid payload aimed at a contract of somebody else is turned away as
\* invalid, not as forbidden.
C6_Witness ==
    /\ Answering({"update_contract"})
    /\ Violates(req)
    /\ req.id \in DOMAIN pre.contracts
    /\ CreatorOf(pre, req.id) # req.actor
    /\ resp.status = "VALIDATION_ERROR"

\* The owned kinds and who may act on an instance.
OwnedOps ==
    {"update_profile", "delete_profile", "get_contract", "update_contract",
     "disable_contract", "get_event", "update_event", "delete_event"}

OwnedKind(r) ==
    CASE r.op \in {"update_profile", "delete_profile"} -> "profiles"
      [] r.op \in {"get_contract", "update_contract", "disable_contract"} -> "contracts"
      [] OTHER -> "events"

MayAct(r) ==
    CASE OwnedKind(r) = "profiles" -> pre.profiles[r.id].user_id = r.actor
      [] OwnedKind(r) = "contracts" -> CreatorOf(pre, r.id) = r.actor
      [] OTHER -> CreatorOf(pre, Get(pre.events[r.id].contract_id)) = r.actor

\* C7: an admitted request by id on a profile (update, delete), a contract
\* or an event is answered NOT_FOUND when no such instance is stored and
\* FORBIDDEN, without data, when it is stored and the actor may not act on
\* it; in both cases the store is left as it was.
C7_NotFoundThenForbidden ==
    (Answering(OwnedOps) /\ Admitted(req)) =>
        /\ req.id \notin DOMAIN pre[OwnedKind(req)]
              => resp.status = "NOT_FOUND" /\ resp.data = None /\ db = pre
        /\ (req.id \in DOMAIN pre[OwnedKind(req)] /\ ~MayAct(req))
              => resp.status = "FORBIDDEN" /\ resp.data = None /\ db = pre

\* A user who is not the creator of the contract asks to delete its event.
C7_Witness ==
    /\ Answering({"delete_event"})
    /\ req.id \in DOMAIN pre.events
    /\ Admitted(req)
    /\ ~MayAct(req)
    /\ resp.status = "FORBIDDEN"

\* C8: soft_delete_user by an authenticated user succeeds, sets the
\* deactivation_date of that user to the date of the request, or to the
\* current time when the request has none, changes nothing else, and
\* get_user_me by the same user on the store it leaves answers with the
\* record and that date.
C8_SoftDeleteKeepsRecord ==
    Answering({"soft_delete_user"}) =>
        LET effective == IF req.ts = None THEN Some(req.now) ELSE req.ts
            again == get_user_me(db, Request("get_user_me", req.actor, 0, <<>>, None, 1))
        IN  /\ (req.actor \in DOMAIN pre.users
                   /\ pre.users[req.actor].is_active = Some(TRUE))
                  => resp.status = "OK"
            /\ resp.status = "OK" =>
                  /\ req.actor \in DOMAIN db.users
                  /\ db.users[req.actor] =
                        [pre.users[req.actor] EXCEPT !.deactivation_date = effective]
                  /\ db = [pre EXCEPT !.users[req.actor] = db.users[req.actor]]
                  /\ Get(resp.data).deactivation_date = effective
                  /\ again.status = "OK"
                  /\ Get(again.data).deactivation_date = effective

\* A soft delete with a date that is not the current time.
C8_Witness ==
    /\ Answering({"soft_delete_user"})
    /\ resp.status = "OK"
    /\ req.ts # None
    /\ req.ts # Some(req.now)
    /\ pre.users[req.actor].deactivation_date # req.ts

\* C9: get_contract, get_event, update_event and delete_event by an admitted
\* actor who is not the creator of the contract concerned are answered
\* FORBIDDEN without any data, and whoever is answered OK by one of them is
\* the creator of that contract.
ContractOps == {"get_contract", "get_event", "update_event", "delete_event"}

ContractConcerned(r) ==
    IF r.op = "get_contract" THEN r.id ELSE Get(pre.events[r.id].contract_id)

C9_NoDataForStrangers ==
    (/\ Answering(ContractOps)
     /\ req.id \in DOMAIN pre[OwnedKind(req)])
    => /\ (Admitted(req) /\ CreatorOf(pre, ContractConcerned(req)) # req.actor)
             => resp.status = "FORBIDDEN" /\ resp.data = None
       /\ resp.status = "OK"
             => CreatorOf(pre, ContractConcerned(req)) = req.actor
       /\ (resp.status = "OK" /\ req.id \in DOMAIN db.events
              /\ Answering({"get_event", "update_event"}))
             => CreatorOf(db, Get(db.events[req.id].contract_id)) = req.actor

\* A user who is not the creator of the contract asks for one of its events.
C9_Witness ==
    /\ Answering({"get_event"})
    /\ req.id \in DOMAIN pre.events
    /\ Admitted(req)
    /\ CreatorOf(pre, ContractConcerned(req)) # req.actor
    /\ resp.status = "FORBIDDEN"

C11_DisableWithOrWithoutTimestamp ==
    (/\ Answering({"disable_contract"})
     /\ req.actor \in DOMAIN pre.users
     /\ pre.users[req.actor].is_active = Some(TRUE)
     /\ req.id \in DOMAIN pre.contracts
     /\ CreatorOf(pre, req.id) = req.actor
     /\ pre.contracts[req.id].disabled = Some(FALSE))
    => LET effective == IF req.ts = None THEN Some(req.now) ELSE req.ts
       IN  /\ resp.status = "OK"
           /\ db.contracts[req.id].disabled = Some(TRUE)
           /\ db.contracts[req.id].disabled_at = effective
           /\ resp.data = Some([id |-> req.id,
                                 name |-> pre.contracts[req.id].name,
                                 disabled_at |-> effective])

\* The payload of an event request is complete and only its date can be at
\* fault.
DatedOnly(r) ==
    /\ {"contract_id", "profile_offeror_id", "profile_offeree_id", "date",
        "duration"} \subseteq DOMAIN r.payload
    /\ \A f \in DOMAIN r.payload :
          /\ r.payload[f] # None
          /\ f # "date" => r.payload[f] \notin BadValues(f)

\* C12: a create_event or update_event payload is turned away as invalid
\* exactly when its date is before the day of the request: the day before is
\* rejected and leaves the store as it was, the day itself passes validation.
C12_DateNotBeforeToday ==
    (/\ Answering({"create_event", "update_event"})
     /\ req.actor \in DOMAIN pre.users
     /\ pre.users[req.actor].is_active = Some(TRUE)
     /\ DatedOnly(req))
    => /\ resp.status = "VALIDATION_ERROR" <=> Get(req.payload.date) < req.now
       /\ Get(req.payload.date) < req.now => ~resp.dm /\ db = pre
       /\ Get(req.payload.date) >= req.now => resp.dm

\* An event dated today is created on a day that has a yesterday.
C12_Witness ==
    /\ Answering({"create_event"})
    /\ req.now > 1
    /\ req.payload.date = Some(req.now)
    /\ resp.status = "OK"
    /\ Get(resp.data) \in DOMAIN db.events
    /\ db.events[Get(resp.data)].date = Some(req.now)

\* The telephone field of a payload, and the pattern in words: an optional
\* leading "+", a first digit, then digits, spaces or dashes.
PhoneOps ==
    {"sign_up", "update_user", "create_accommodation", "update_accommodation",
     "create_event", "update_event"}

PhoneField(r) ==
    CASE r.op \in {"sign_up", "update_user"} -> "phone_number"
      [] r.op \in {"create_event", "update_event"} -> "contact_phone"
      [] OTHER -> "telephone_number"

PhonePattern(v) ==
    LET s == IF Len(v) > 0 /\ v[1] = "+" THEN Tail(v) ELSE v
    IN  /\ Len(s) >= 1
        /\ s[1] \in Digit
        /\ \A i \in 2..Len(s) : s[i] \in Digit \cup {" ", "-"}

\* C13: a telephone number in a payload (of a user, an accommodation or an
\* event) that does not follow the pattern is answered with a validation
\* error, and one that follows it passes validation.
C13_PhonePatternEverywhere ==
    (/\ Answering(PhoneOps)
     /\ \/ req.op \in {"sign_up", "create_accommodation"}
        \/ /\ req.actor \in DOMAIN pre.users
           /\ pre.users[req.actor].is_active = Some(TRUE)
     /\ PhoneField(req) \in DOMAIN req.payload
     /\ req.payload[PhoneField(req)] # None)
    => LET v == Get(req.payload[PhoneField(req)])
       IN  /\ ~PhonePattern(v) => resp.status = "VALIDATION_ERROR"
           /\ PhonePattern(v) => resp.status # "VALIDATION_ERROR"

\* C14 as first stated: create_contract with a code other than a currency
\* in use, "XXX" for one, is answered with a validation error and stores no
\* contract, and with a currency in use it succeeds.
C14_XXXRejected ==
    (/\ Answering({"create_contract"})
     /\ req.actor \in DOMAIN pre.users
     /\ pre.users[req.actor].is_active = Some(TRUE))
    => /\ Get(req.payload.currency_code) \notin {"USD", "EUR"}
             => resp.status = "VALIDATION_ERROR" /\ db = pre
       /\ Get(req.payload.currency_code) \in {"USD", "EUR"}
             => resp.status = "OK"

\* C14: create_contract with a currency_code that is no alphabetic code of
\* ISO 4217 is answered with a validation error and stores no contract; with
\* a code of ISO 4217 ("USD", and also "XXX", the code for no currency) the
\* same request succeeds and stores a contract with that code.
C14_UnknownCurrencyRejected ==
    (/\ Answering({"create_contract"})
     /\ req.actor \in DOMAIN pre.users
     /\ pre.users[req.actor].is_active = Some(TRUE))
    => LET code == Get(req.payload.currency_code)
       IN  /\ code \notin IsoCodes
                 => /\ resp.status = "VALIDATION_ERROR"
                    /\ ~resp.dm
                    /\ db = pre
           /\ code \in IsoCodes
                 => /\ resp.status = "OK"
                    /\ Get(resp.data) \notin DOMAIN pre.contracts
                    /\ db.contracts[Get(resp.data)].currency_code = Some(code)

\* A contract in a code that is no currency is asked for where the same
\* request in a currency would have been stored.
C14_Witness ==
    /\ Answering({"create_contract"})
    /\ req.actor \in DOMAIN pre.users
    /\ req.payload.currency_code = Some("ZZZ")
    /\ Get(req.payload.offeree_id) \in DOMAIN pre.profiles
    /\ resp.status = "VALIDATION_ERROR"
    /\ db = pre

\* C15: no request on an accommodation is answered FORBIDDEN.  Whoever the
\* authenticated actor is, get_accommodation of a stored accommodation
\* answers with its record, update_accommodation with a well-formed payload
\* merges it, delete_accommodation removes it unless an event names it; and
\* create_accommodation with a well-formed payload succeeds without an actor.
C15_AccommodationsUnowned ==
    /\ Answering({"create_accommodation", "get_accommodation",
                  "update_accommodation", "delete_accommodation"})
          => resp.status # "FORBIDDEN"
    /\ (/\ Answering({"get_accommodation", "update_accommodation",
                      "delete_accommodation"})
        /\ Admitted(req)
        /\ req.id \in DOMAIN pre.accommodations)
       => /\ resp.status \in {"OK", "CONFLICT"}
          /\ resp.status = "CONFLICT"
                => Answering({"delete_accommodation"})
                      /\ AccommodationReferenced(pre, req.id)
          /\ (Answering({"get_accommodation"}) /\ resp.status = "OK")
                => resp.data = Some([id |-> req.id] @@ pre.accommodations[req.id])
          /\ (Answering({"delete_accommodation"}) /\ resp.status = "OK")
                => req.id \notin DOMAIN db.accommodations
    /\ (/\ Answering({"create_accommodation"})
        /\ ~Violates(req)
        /\ {"name", "telephone_number"} \subseteq DOMAIN req.payload)
       => /\ req.actor \notin DOMAIN pre.users
          /\ resp.status = "OK"
          /\ Get(resp.data) \in DOMAIN db.accommodations

\* An accommodation created without an actor is deleted by the second user.
C15_Witness ==
    /\ Answering({"delete_accommodation"})
    /\ req.id \in DOMAIN pre.accommodations
    /\ pre.accommodations[req.id].name = Some("a2")
    /\ req.actor = 2
    /\ resp.status = "OK"
    /\ req.id \notin DOMAIN db.accommodations

\* The fields the statement names: a user's telephone number, a contract's
\* currency code, an event's date, duration and times of day.
NullableNamed ==
    {"phone_number", "currency_code", "date", "duration", "stage_set"}

\* C16: an update that carries an explicit null for one of these fields, the
\* rest of the payload being well-formed and the actor entitled, succeeds
\* and the field is null in the stored instance afterwards.
C16_NullClearsField ==
    (/\ Answering({"update_user", "update_contract", "update_event"})
     /\ Admitted(req)
     /\ UpdateId(req) \in DOMAIN pre[UpdateKind(req)]
     /\ MayUpdate(req))
    => \A f \in DOMAIN req.payload \cap NullableNamed :
          req.payload[f] = None
             => /\ resp.status = "OK"
                /\ db[UpdateKind(req)][UpdateId(req)][f] = None

\* C17: a GET request to /contract/itinerary is served by show_itinerary and
\* answered with its message; the route GET /contract/{contract_id},
\* registered before it, does not take the request.
C17_ItineraryReached ==
    (/\ "path" \in DOMAIN req.payload
     /\ req.payload.path = <<"contract", "itinerary">>)
    => /\ req.op = "show_itinerary"
       /\ resp.status = "OK"
       /\ resp.data = Some([message |-> "Shows Itinerary"])

====
